---- MODULE Spec2Model ----
(***************************************************************************)
(* A model of silk's value model (parse/value.go) and of its runner        *)
(* (runner: RunGlob, RunFile, RunGroup, runRequest and the assert*          *)
(* helpers).                                                                *)
(*                                                                          *)
(* Go strings and byte slices are sequences of one-character strings.      *)
(* A Go interface{} value is a record [t |-> dynamic type, v |-> value]:   *)
(* two interface values are == exactly when both fields agree.             *)
(***************************************************************************)
EXTENDS Integers, Sequences, FiniteSets, TLC

(* ---------------------------------------------------------------- bounds *)
\* longest string drawn as Value.Data or as the compared value
MaxStrLen == 4
\* most Groups handed to one run
MaxGroups == 2
\* most Requests in one Group
MaxRequests == 2
\* most ExpectedDetails lines in one Request
MaxDetails == 2

VARIABLES
    failNowAborts,  \* the host's T: TRUE when FailNow ends the calling goroutine
    pc,             \* "idle", "running", "ran", "returned", "aborted"
    groups,         \* the Groups still to run: for each, how many Requests are left
    documents,      \* the documents of a RunFile whose parsing failed (else <<>>)
    globErr,        \* RunGlob was handed an error
    parseErr,       \* parse.ParseFile returned an error
    logged,         \* a diagnostic has been logged during this run
    failed,         \* t.FailNow has been called during this run
    last,           \* what the runRequest that just ran did (NoRequest outside one)
    vData,          \* Value.Data of the Value under test
    other,          \* the argument of Equal
    equalResult     \* what Equal returned ("none" before the call)

vars == <<failNowAborts, pc, groups, documents, globErr, parseErr, logged, failed, last,
          vData, other, equalResult>>

runnerVars ==
    <<failNowAborts, pc, groups, documents, globErr, parseErr, logged, failed, last>>
valueVars == <<vData, other, equalResult>>

(* ------------------------------------------------------- dynamic values *)
Nil == [t |-> "nil", v |-> <<>>]
Str(s) == [t |-> "string", v |-> s]
Num(n) == [t |-> "float64", v |-> n]
Map(f) == [t |-> "map", v |-> f]

\* Go's == on two interface{} values of comparable dynamic types
IfaceEq(a, b) == a.t = b.t /\ a.v = b.v

Alphabet == {"/", "^", "1"}

RECURSIVE SeqsUpTo(_, _)
SeqsUpTo(S, n) ==
    IF n = 0 THEN {<<>>}
    ELSE LET shorter == SeqsUpTo(S, n - 1)
         IN  shorter \cup {Append(s, c) : s \in shorter, c \in S}

Strings == SeqsUpTo(Alphabet, MaxStrLen)

HasPrefix(s, p) == Len(s) >= Len(p) /\ SubSeq(s, 1, Len(p)) = p
HasSuffix(s, p) == Len(s) >= Len(p) /\ SubSeq(s, Len(s) - Len(p) + 1, Len(s)) = p

Digit(d) == CASE d = 0 -> "0" [] d = 1 -> "1" [] d = 2 -> "2" [] d = 3 -> "3"
              [] d = 4 -> "4" [] d = 5 -> "5" [] d = 6 -> "6" [] d = 7 -> "7"
              [] d = 8 -> "8" [] d = 9 -> "9"

RECURSIVE Itoa(_)
Itoa(n) == IF n < 10 THEN <<Digit(n)>> ELSE Append(Itoa(n \div 10), Digit(n % 10))

\* fmt.Sprintf("%v", val) for nil, a string and a whole float64
Sprint(val) ==
    CASE val.t = "nil" -> <<"<", "n", "i", "l", ">">>
      [] val.t = "string" -> val.v
      [] val.t = "float64" -> Itoa(val.v)

(* regexp over the patterns the alphabet can spell: "^" is the start-of-text
   assertion, every other character stands for itself *)
RECURSIVE MatchHere(_, _, _, _)
MatchHere(pat, i, s, j) ==
    IF i > Len(pat) THEN TRUE
    ELSE IF pat[i] = "^" THEN j = 1 /\ MatchHere(pat, i + 1, s, j)
    ELSE j <= Len(s) /\ s[j] = pat[i] /\ MatchHere(pat, i + 1, s, j + 1)

\* regexp.MustCompile(pat).Match(s): unanchored search
RegexMatch(pat, s) == \E j \in 1..(Len(s) + 1) : MatchHere(pat, 1, s, j)

LooksLikeRegex(str) == HasPrefix(str, <<"/">>) /\ HasSuffix(str, <<"/">>)

\* Value.Equal: "true", "false", or "panic" (str[1:len(str)-1] of the string "/")
Equal(data, val) ==
    IF data.t # "string" THEN IF IfaceEq(data, val) THEN "true" ELSE "false"
    ELSE IF LooksLikeRegex(data.v) /\ Len(data.v) < 2 THEN "panic"
    ELSE IF LooksLikeRegex(data.v)
            /\ RegexMatch(SubSeq(data.v, 2, Len(data.v) - 1), Sprint(val))
         THEN "true"
    ELSE IF IfaceEq(data, val) THEN "true" ELSE "false"

\* Value.Type
Type(data) ==
    IF data.t # "string" THEN data.t
    ELSE IF LooksLikeRegex(data.v) THEN "regex" ELSE "string"

Scalars == {Nil, Num(1), Num(11)} \cup {Str(s) : s \in Strings}

NoRequest == [outcome |-> "none"]

(* ----------------------------------------------- the value model alone *)
RunnerIdle ==
    /\ failNowAborts = TRUE
    /\ pc = "idle"
    /\ groups = <<>>
    /\ documents = <<>>
    /\ globErr = FALSE
    /\ parseErr = FALSE
    /\ logged = FALSE
    /\ failed = FALSE
    /\ last = NoRequest

InitValue ==
    /\ RunnerIdle
    /\ vData \in Scalars
    /\ other \in Scalars
    /\ equalResult = "none"

CallEqual ==
    /\ equalResult = "none"
    /\ equalResult' = Equal(vData, other)
    /\ UNCHANGED <<vData, other>>
    /\ UNCHANGED runnerVars

NextValue == CallEqual

SpecValue == InitValue /\ [][NextValue]_vars

\* C4: a /.../ Value is equal to other exactly when its inner pattern
\* matches the textual rendering of other; a literal comparison of the
\* delimited string never makes Equal true.
C4_RegexOnly ==
    (equalResult # "none" /\ vData.t = "string" /\ LooksLikeRegex(vData.v)
        /\ Len(vData.v) >= 2)
    => (equalResult = "true"
          <=> RegexMatch(SubSeq(vData.v, 2, Len(vData.v) - 1), Sprint(other)))

(* ------------------------------------------------------ runner: inputs *)
KStatus == <<"S", "t", "a", "t", "u", "s">>
KEtag == <<"E", "t", "a", "g">>
KData == <<"D", "a", "t", "a">>
KDataN == <<"D", "a", "t", "a", ".", "n">>
KDataG == <<"D", "a", "t", "a", ".", "g">>
KDatax == <<"D", "a", "t", "a", "x">>
SegN == <<"n">>
SegG == <<"g">>

\* parse.Detail of one ExpectedDetails line: a key and its parse.Value
Details == {
    [Key |-> KStatus, Value |-> Num(200)],
    [Key |-> KEtag,   Value |-> Str(<<"/", "1", "/">>)],
    [Key |-> KDataN,  Value |-> Str(<<"/", "^", "1", "/">>)],
    [Key |-> KDataG,  Value |-> Nil],
    [Key |-> KDataG,  Value |-> Num(3)],
    [Key |-> KDatax,  Value |-> Str(<<"1">>)] }

\* parse.Request, the fields runRequest's assertions read
Requests ==
    [ExpectedBody : {<<>>, << <<"1">> >>},
     ExpectedDetails : SeqsUpTo(Details, MaxDetails)]

\* a response body: its bytes and what the configured ParseBody makes of them
BodyText == [bytes |-> <<"1">>,
             data |-> Map(SegN :> Str(<<"1">>)), errData |-> FALSE]
BodyPattern == [bytes |-> <<"^">>,
                data |-> Map((SegN :> Str(<<"/", "^", "1", "/">>)) @@ (SegG :> Nil)),
                errData |-> FALSE]
BodyNumbers == [bytes |-> <<"1", "1">>,
                data |-> Map((SegN :> Num(11)) @@ (SegG :> Num(3))), errData |-> FALSE]
BodyNull == [bytes |-> <<"/">>, data |-> Nil, errData |-> FALSE]
BodyBad == [bytes |-> <<>>, data |-> Nil, errData |-> TRUE]

\* http.Header: name -> the values in their order of occurrence
HeaderNone == <<>>
HeaderOne == (KEtag :> << <<"1">> >>)
HeaderTwo == (KEtag :> << <<"1">>, <<"/", "1", "/">> >>)
                @@ (KStatus :> << <<"1">> >>) @@ (KDatax :> << <<"1">> >>)
HeaderSwap == (KEtag :> << <<"/", "1", "/">>, <<"1">> >>)

Exchanges == {
    [Header |-> HeaderNone, Body |-> BodyBad],
    [Header |-> HeaderOne,  Body |-> BodyText],
    [Header |-> HeaderTwo,  Body |-> BodyPattern],
    [Header |-> HeaderTwo,  Body |-> BodyNumbers],
    [Header |-> HeaderSwap, Body |-> BodyNull] }

\* what NewRequest, RoundTrip and ReadAll do for one Request
Worlds ==
    {[kind |-> "invalid request"], [kind |-> "transport error"],
     [kind |-> "read error"]}
    \cup {[kind |-> "response", StatusCode |-> c, Header |-> e.Header, Body |-> e.Body] :
            c \in {200, 404}, e \in Exchanges}

(* ---------------------------------------------------- runner: helpers *)
RECURSIVE SplitFrom(_, _, _)
SplitFrom(s, i, cur) ==
    IF i > Len(s) THEN <<cur>>
    ELSE IF s[i] = "." THEN <<cur>> \o SplitFrom(s, i + 1, <<>>)
    ELSE SplitFrom(s, i + 1, Append(cur, s[i]))

\* strings.Split(s, ".")
Split(s) == SplitFrom(s, 1, <<>>)

RECURSIVE Walk(_, _, _)
Walk(mp, segs, i) ==
    LET k == segs[i] IN
    IF i = Len(segs)
    THEN IF k \in DOMAIN mp THEN [val |-> mp[k], ok |-> TRUE]
         ELSE [val |-> Nil, ok |-> FALSE]
    ELSE IF k \in DOMAIN mp /\ mp[k].t = "map" THEN Walk(mp[k].v, segs, i + 1)
    ELSE [val |-> Nil, ok |-> FALSE]

\* m.GetOK(map[string]interface{}{"Data": data}, key)
GetOK(data, key) == Walk(KData :> data, Split(key), 1)

\* ParseBody(bytes.NewReader(actualBody))
ParseBody(body) == [data |-> body.data, errData |-> body.errData]

RECURSIVE JoinFrom(_, _)
JoinFrom(lines, i) ==
    IF i > Len(lines) THEN <<>>
    ELSE IF i = Len(lines) THEN lines[i]
    ELSE lines[i] \o <<"\n">> \o JoinFrom(lines, i + 1)

\* req.ExpectedBody.Join()
Join(lines) == JoinFrom(lines, 1)

\* a header loop that keeps the first value of a repeated name
FlattenFirst(Header) ==
    [k \in {h \in DOMAIN Header : Len(Header[h]) > 0} |-> Str(Header[k][1])]

\* the header loop of runRequest: each value overwrites the one before
Flatten(Header) ==
    [k \in {h \in DOMAIN Header : Len(Header[h]) > 0} |->
        Str(Header[k][Len(Header[k])])]

\* responseDetails after responseDetails["Status"] = float64(StatusCode)
ResponseDetails(Header, StatusCode) ==
    LET flat == Flatten(Header) IN
    [k \in DOMAIN flat \cup {KStatus} |->
        IF k = KStatus THEN Num(StatusCode) ELSE flat[k]]

\* a FailNow that always comes back to its caller
FailNowReturns(next) == next

\* r.t.FailNow() followed by return: where control is afterwards
FailNow(next) == IF failNowAborts THEN "aborted" ELSE next

\* an assertBody that accepts every body
assertBodyAny(actual, expected) == TRUE

\* assertBody
assertBody(actual, expected) == actual = expected

\* an assertDetail that compares as the Data path does, with Value.Equal
assertDetailEqual(actual, expected) == Equal(expected, actual) = "true"

\* assertDetail
assertDetail(actual, expected) == IfaceEq(actual, expected)

\* an assertData that accepts every missing path
assertDataLenient(data, errData, key, expected) ==
    IF errData THEN FALSE
    ELSE IF data.t = "nil" THEN FALSE
    ELSE LET got == GetOK(data, key) IN
         IF ~got.ok THEN TRUE
         ELSE Equal(expected, got.val) = "true"

\* assertData
assertData(data, errData, key, expected) ==
    IF errData THEN FALSE
    ELSE IF data.t = "nil" THEN FALSE
    ELSE LET got == GetOK(data, key) IN
         IF ~got.ok /\ expected.t # "nil" THEN FALSE
         ELSE IF ~got.ok /\ expected.t = "nil" THEN TRUE
         ELSE Equal(expected, got.val) = "true"

\* the test that sends an ExpectedDetails line to the body data
IsDataKey(key) == HasPrefix(key, KData)

\* the state of the ExpectedDetails loop before its first line
LoopStart ==
    [once |-> FALSE, data |-> Nil, errData |-> FALSE, parseCalls |-> 0,
     evaluated |-> <<>>, logs |-> 0, failLogs |-> 0, failNow |-> 0]

RECURSIVE DetailsLoop(_, _, _, _, _)

\* a failure that is reported without leaving the loop
FailAndContinue(lines, rd, body, i, st) ==
    DetailsLoop(lines, rd, body, i + 1,
                [st EXCEPT !.logs = @ + 2, !.failLogs = @ + 1, !.failNow = @ + 1])

\* the diagnostic of the failed assertion, then r.fail(...) and return, after
\* line i was found to fail
FailAndReturn(lines, rd, body, i, st) ==
    [st EXCEPT !.logs = @ + 2, !.failLogs = @ + 1, !.failNow = @ + 1]

\* parseDataOnce.Do(func() { data, errData = r.ParseBody(...) })
ParseOnce(st, body) ==
    IF st.once THEN st
    ELSE [st EXCEPT !.once = TRUE, !.parseCalls = @ + 1,
                    !.data = ParseBody(body).data,
                    !.errData = ParseBody(body).errData]

\* the ExpectedDetails loop of runRequest, from line i on
DetailsLoop(lines, rd, body, i, st) ==
    IF i > Len(lines) THEN st
    ELSE
      LET detail == lines[i] IN
      IF IsDataKey(detail.Key)
      THEN LET st1 == ParseOnce(st, body)
               pass == assertData(st1.data, st1.errData, detail.Key, detail.Value)
               st2 == [st1 EXCEPT !.evaluated =
                          Append(@, [line |-> i, path |-> "data", pass |-> pass])]
           IN  IF ~pass THEN FailAndReturn(lines, rd, body, i, st2)
               ELSE DetailsLoop(lines, rd, body, i + 1, st2)
      ELSE LET present == detail.Key \in DOMAIN rd
               pass == present /\ assertDetail(rd[detail.Key], detail.Value)
               st2 == [st EXCEPT !.evaluated =
                          Append(@, [line |-> i, path |-> "header", pass |-> pass])]
           IN  IF ~pass THEN FailAndReturn(lines, rd, body, i, st2)
               ELSE DetailsLoop(lines, rd, body, i + 1, st2)

\* what runRequest leaves behind when it stops before the assertions
Stopped(req, w, outcome, sent) ==
    [outcome |-> outcome, req |-> req, world |-> w, sent |-> sent,
     responseDetails |-> <<>>, bodyChecked |-> FALSE,
     parseCalls |-> 0, evaluated |-> <<>>,
     logs |-> 1, failLogs |-> 0, failNow |-> 1]

\* the ExpectedBody mismatch branch: assertBody's eight log lines, then
\* r.fail(...) and return
BodyMismatch(req, w, rd) ==
    [outcome |-> "body mismatch", req |-> req, world |-> w, sent |-> TRUE,
     responseDetails |-> rd, bodyChecked |-> TRUE,
     parseCalls |-> 0, evaluated |-> <<>>,
     logs |-> 9, failLogs |-> 1, failNow |-> 1]

\* runRequest on one Request in one world: the record of what it did
runRequest(req, w) ==
    IF w.kind = "invalid request" THEN Stopped(req, w, "invalid request", FALSE)
    ELSE IF w.kind = "transport error" THEN Stopped(req, w, "transport error", TRUE)
    ELSE IF w.kind = "read error" THEN Stopped(req, w, "read error", TRUE)
    ELSE
      LET rd == ResponseDetails(w.Header, w.StatusCode)
          declared == Len(req.ExpectedBody) > 0
      IN  IF declared /\ ~assertBody(w.Body.bytes, Join(req.ExpectedBody))
          THEN BodyMismatch(req, w, rd)
          ELSE LET st == DetailsLoop(req.ExpectedDetails, rd, w.Body, 1, LoopStart)
               IN  [outcome |-> IF st.failNow > 0 THEN "detail mismatch" ELSE "pass",
                    req |-> req, world |-> w, sent |-> TRUE,
                    responseDetails |-> rd, bodyChecked |-> declared,
                    parseCalls |-> st.parseCalls, evaluated |-> st.evaluated,
                    logs |-> st.logs, failLogs |-> st.failLogs,
                    failNow |-> st.failNow]

(* ---------------------------------------------------- runner: actions *)
\* the Groups a caller can hand over: how many Requests each holds
GroupLists == SeqsUpTo(0..MaxRequests, MaxGroups)

\* the documents named to RunFile: does each parse, and how many Requests it holds
DocumentLists == SeqsUpTo([ok : BOOLEAN, requests : 0..MaxRequests], MaxGroups)

\* parse.ParseFile(filenames...): an error as soon as one document fails
ParseFile(docs) ==
    [err |-> \E i \in 1..Len(docs) : ~docs[i].ok,
     groups |-> [i \in 1..Len(docs) |-> docs[i].requests]]

Init ==
    /\ failNowAborts \in BOOLEAN
    /\ pc = "idle"
    /\ groups = <<>>
    /\ documents = <<>>
    /\ globErr = FALSE
    /\ parseErr = FALSE
    /\ logged = FALSE
    /\ failed = FALSE
    /\ last = NoRequest
    /\ vData = Nil
    /\ other = Nil
    /\ equalResult = "none"

\* RunGroup(groups...): the loops start
RunGroupOn(gs) ==
    /\ pc' = "running"
    /\ groups' = gs
    /\ UNCHANGED <<documents, parseErr, logged, failed>>

\* a RunFile that runs whatever was parsed, error or not
RunFileAnyway(docs) ==
    LET parsed == ParseFile(docs) IN
    /\ parseErr' = parsed.err
    /\ documents' = IF parsed.err THEN docs ELSE <<>>
    /\ logged' = (logged \/ parsed.err)
    /\ pc' = "running"
    /\ groups' = parsed.groups
    /\ UNCHANGED failed

\* RunFile(filenames...)
RunFileOn(docs) ==
    LET parsed == ParseFile(docs) IN
    IF parsed.err
    THEN /\ parseErr' = TRUE
         /\ documents' = docs
         /\ logged' = TRUE
         /\ pc' = "returned"
         /\ UNCHANGED <<groups, failed>>
    ELSE RunGroupOn(parsed.groups)

RunGlob ==
    /\ pc = "idle"
    /\ \E err \in BOOLEAN, docs \in DocumentLists :
         IF err
         THEN /\ globErr' = TRUE
              /\ logged' = TRUE
              /\ failed' = TRUE
              /\ pc' = FailNow("returned")
              /\ UNCHANGED <<groups, documents, parseErr>>
         ELSE /\ RunFileOn(docs)
              /\ UNCHANGED globErr
    /\ UNCHANGED <<failNowAborts, last>>
    /\ UNCHANGED valueVars

RunFile ==
    /\ pc = "idle"
    /\ \E docs \in DocumentLists : RunFileOn(docs)
    /\ UNCHANGED <<failNowAborts, globErr, last>>
    /\ UNCHANGED valueVars

RunGroup ==
    /\ pc = "idle"
    /\ \E gs \in GroupLists : RunGroupOn(gs)
    /\ UNCHANGED <<failNowAborts, globErr, last>>
    /\ UNCHANGED valueVars

\* one iteration of runGroup's loop: runRequest on the next Request
RunRequest ==
    /\ pc = "running"
    /\ groups # <<>>
    /\ Head(groups) > 0
    /\ \E req \in Requests, w \in Worlds :
         /\ last' = runRequest(req, w)
         /\ logged' = (logged \/ last'.logs > 0)
         /\ failed' = (failed \/ last'.failNow > 0)
         /\ pc' = IF last'.failNow > 0 THEN FailNow("ran") ELSE "ran"
    /\ groups' = [groups EXCEPT ![1] = @ - 1]
    /\ UNCHANGED <<failNowAborts, documents, globErr, parseErr>>
    /\ UNCHANGED valueVars

\* runRequest has returned: runGroup's loop goes round, the frame is gone
LoopBack ==
    /\ pc = "ran"
    /\ pc' = "running"
    /\ last' = NoRequest
    /\ UNCHANGED <<failNowAborts, groups, documents, globErr, parseErr, logged, failed>>
    /\ UNCHANGED valueVars

\* runGroup returns: RunGroup's loop moves to the next Group
NextGroup ==
    /\ pc = "running"
    /\ groups # <<>>
    /\ Head(groups) = 0
    /\ groups' = Tail(groups)
    /\ UNCHANGED <<failNowAborts, pc, documents, globErr, parseErr, logged, failed, last>>
    /\ UNCHANGED valueVars

\* RunGroup's loop is over
Return ==
    /\ pc = "running"
    /\ groups = <<>>
    /\ pc' = "returned"
    /\ UNCHANGED <<failNowAborts, groups, documents, globErr, parseErr, logged, failed,
                   last>>
    /\ UNCHANGED valueVars

Next ==
    RunGlob \/ RunFile \/ RunGroup \/ RunRequest \/ LoopBack \/ NextGroup \/ Return

Spec == Init /\ [][Next]_vars

(* ------------------------------------------------------------- claims *)
\* runRequest got as far as its assertions
Asserted == last.outcome \in {"body mismatch", "detail mismatch", "pass"}

\* runRequest got as far as the ExpectedDetails loop
ReachedDetails == last.outcome \in {"detail mismatch", "pass"}

\* a key that is Data or Data.<path>
IsDataPath(key) == key = KData \/ HasPrefix(key, KData \o <<".">>)

\* would line i of the Request fail against the response it got?
LineFails(l, i) ==
    LET detail == l.req.ExpectedDetails[i]
        parsed == ParseBody(l.world.Body)
    IN  IF IsDataKey(detail.Key)
        THEN ~assertData(parsed.data, parsed.errData, detail.Key, detail.Value)
        ELSE ~(detail.Key \in DOMAIN l.responseDetails
               /\ assertDetail(l.responseDetails[detail.Key], detail.Value))

FailingLines(l) == {i \in 1..Len(l.req.ExpectedDetails) : LineFails(l, i)}

FirstOf(S) == CHOOSE i \in S : \A j \in S : i <= j

\* C1: a Request with two or more failing ExpectedDetails lines reports
\* exactly one failure (one FAIL log, one FailNow), for the earliest failing
\* line; the lines are evaluated in document order and none after the
\* failing one is evaluated.
C1_FailFast ==
    (ReachedDetails /\ Cardinality(FailingLines(last)) >= 2)
    => LET first == FirstOf(FailingLines(last)) IN
       /\ last.failLogs = 1
       /\ last.failNow = 1
       /\ Len(last.evaluated) = first
       /\ \A k \in 1..first : last.evaluated[k].line = k
       /\ \A k \in 1..first : last.evaluated[k].pass = (k < first)

C1_Witness ==
    /\ ReachedDetails
    /\ Cardinality(FailingLines(last)) >= 2
    /\ FirstOf(FailingLines(last)) < Len(last.req.ExpectedDetails)

\* a runRequest step that sends its Request through the transport
SendsRequest == last = NoRequest /\ last' # NoRequest /\ last'.sent

\* C2 as stated: once a failure has been signalled, no later Request is sent
\* through the transport, whatever the host's FailNow does.
C2_AbortsForAnyFailNow == [][failed => ~SendsRequest]_vars

\* C2 as amended: once a failure has been signalled to a host whose FailNow
\* does not return, no later Request is sent through the transport.
C2_AbortsWhenFailNowEnds == [][(failed /\ failNowAborts) => ~SendsRequest]_vars

RECURSIVE Sum(_, _)
Sum(f, i) == IF i > Len(f) THEN 0 ELSE f[i] + Sum(f, i + 1)

C2_Witness ==
    /\ pc = "aborted"
    /\ failNowAborts
    /\ last # NoRequest
    /\ last.failNow = 1
    /\ Sum(groups, 1) > 0

\* the value the dotted path of key resolves to in the parsed body
Resolved(l, key) == GetOK(ParseBody(l.world.Body).data, key)

DataPathRule(l, e) ==
    LET detail == l.req.ExpectedDetails[e.line]
        got == Resolved(l, detail.Key)
    IN  IF ~got.ok THEN e.pass = (detail.Value.t = "nil")
        ELSE e.pass = (Equal(detail.Value, got.val) = "true")

\* the Data / Data.<path> lines that were evaluated against a parsed body
DataLines(l) ==
    {k \in 1..Len(l.evaluated) :
        /\ IsDataPath(l.req.ExpectedDetails[l.evaluated[k].line].Key)
        /\ ~ParseBody(l.world.Body).errData}

\* C3 as stated: against any successfully parsed body, a body that decodes
\* to null included, a Data line whose path resolves to nothing passes
\* exactly when the expected Data is null, and one whose path resolves to a
\* value passes exactly when expected.Equal(actual).
C3_DataPathAnyBody ==
    ReachedDetails => \A k \in DataLines(last) : DataPathRule(last, last.evaluated[k])

\* C3 as amended: the same for a parsed body that is not null; against a
\* body that decodes to null every Data line fails.
C3_DataPathNonNullBody ==
    ReachedDetails =>
      \A k \in DataLines(last) :
        IF ParseBody(last.world.Body).data.t = "nil"
        THEN ~last.evaluated[k].pass
        ELSE DataPathRule(last, last.evaluated[k])

C3_Witness ==
    /\ ReachedDetails
    /\ \E k \in DataLines(last) :
         /\ ParseBody(last.world.Body).data.t # "nil"
         /\ ~Resolved(last, last.req.ExpectedDetails[k].Key).ok
         /\ last.req.ExpectedDetails[k].Value.t # "nil"
         /\ ~last.evaluated[k].pass
    /\ \E k \in DataLines(last) :
         /\ Resolved(last, last.req.ExpectedDetails[k].Key).ok
         /\ last.evaluated[k].pass

\* the evaluated lines whose key does not begin with Data: Status and the
\* plain header names
HeaderLines(l) ==
    {k \in 1..Len(l.evaluated) : ~IsDataKey(l.req.ExpectedDetails[k].Key)}

C6_BodyFirst ==
    (Asserted /\ Len(last.req.ExpectedBody) > 0)
    => IF last.world.Body.bytes # Join(last.req.ExpectedBody)
       THEN /\ last.outcome = "body mismatch"
            /\ last.failLogs = 1
            /\ last.failNow = 1
            /\ last.evaluated = <<>>
            /\ last.parseCalls = 0
       ELSE /\ ReachedDetails
            /\ Len(last.req.ExpectedDetails) > 0 => Len(last.evaluated) > 0

C6_Witness ==
    /\ last.outcome = "body mismatch"
    /\ Len(last.req.ExpectedDetails) > 0
    /\ last.evaluated = <<>>

\* C7: when one of the documents given to RunFile fails to parse, the error
\* is logged and nothing is run: no Group is started and no Request is sent.
C7_NoRunOnParseError ==
    parseErr => (pc = "returned" /\ logged /\ groups = <<>> /\ last = NoRequest)

C7_Witness ==
    /\ parseErr
    /\ pc = "returned"
    /\ \E i \in 1..Len(documents) : documents[i].ok /\ documents[i].requests > 0
    /\ \E i \in 1..Len(documents) : ~documents[i].ok

\* C8: the flattened mapping holds, for a header name with several values,
\* the last of them, and under Status the numeric status code whatever the
\* response headers held.
C8_LastValueAndStatus ==
    Asserted =>
      LET w == last.world
          rd == last.responseDetails
      IN  /\ rd[KStatus] = Num(w.StatusCode)
          /\ \A h \in DOMAIN w.Header :
               (h # KStatus /\ Len(w.Header[h]) > 0)
               => rd[h] = Str(w.Header[h][Len(w.Header[h])])
          /\ DOMAIN rd = {KStatus} \cup {h \in DOMAIN w.Header : Len(w.Header[h]) > 0}

C8_Witness ==
    /\ Asserted
    /\ KStatus \in DOMAIN last.world.Header
    /\ \E h \in DOMAIN last.world.Header :
         /\ Len(last.world.Header[h]) > 1
         /\ last.world.Header[h][1] # last.world.Header[h][Len(last.world.Header[h])]

\* C9: ParseBody is invoked at most once in a Request, and only when a line
\* whose key is exactly Data or Data.<path> is reached; a line with any other
\* key is looked up in the flattened response mapping.
C9_ParseOnlyForDataPath ==
    ReachedDetails =>
      /\ last.parseCalls <= 1
      /\ last.parseCalls = 1 =>
           \E k \in 1..Len(last.evaluated) :
             IsDataPath(last.req.ExpectedDetails[k].Key)
      /\ \A k \in 1..Len(last.evaluated) :
           ~IsDataPath(last.req.ExpectedDetails[k].Key)
           => last.evaluated[k].path = "header"

\* C10: a run that returns without FailNow having been called met no glob
\* error and no parse error, and every Request it ran passed; every error
\* path logs a diagnostic and then calls FailNow.
C10_NoSilentError ==
    /\ (globErr \/ parseErr) => (logged /\ failed)
    /\ (last # NoRequest /\ last.outcome # "pass") => (logged /\ failed)
    /\ (pc = "returned" /\ ~failed) => (~globErr /\ ~parseErr)

====
